---- MODULE Spec2Model ----
(***************************************************************************)
(* The chat-room relay server: the registry (rooms, allSockets) and the    *)
(* per-connection handlers of the "message" and "close" events.            *)
(*                                                                         *)
(* Every handler runs to completion on the single event loop, so each one  *)
(* is one action.  The envelopes a handler sends are recorded, in the      *)
(* order of the send calls, in `out`; the event just handled is `ev`.      *)
(* The createdAt field of a room and the timestamp of a message envelope   *)
(* are wall-clock readings that no handler ever reads back; they are left  *)
(* out of the records.                                                     *)
(***************************************************************************)
EXTENDS Integers, Sequences, FiniteSets, TLC

VARIABLES
    alive,       \* the server process is running
    conn,        \* per socket: "none" (not yet connected), "open", "closed"
    rooms,       \* Map<string, Room>: a function whose DOMAIN is the key set
    allSockets,  \* User[]
    created,     \* per socket: the roomIds it was sent in roomCreated envelopes
    ev,          \* the event handled by the last step
    pre,         \* the registry as that event found it
    out,         \* the envelopes sent while handling it, in send order
    announced,   \* per roomId: the userCounts announced by the last two
                 \* successful joinRoom handled since the last close
                 \* (0: none); kept by SpecJoins
    gen,         \* one call of generateRoomId on its own; driven by SpecGen
    delivered,   \* per connection: the userCount of the last envelope that
                 \* carried one to it (0: none); kept by SpecCounts
    welcomed     \* the connections that were sent a roomCreated or roomJoined
                 \* by an event before the last one; kept by SpecOrder

\* the server: the registry and the record of the last event
srv == <<alive, conn, rooms, allSockets, created, ev, pre, out>>

vars == <<alive, conn, rooms, allSockets, created, ev, pre, out, announced, gen,
          delivered, welcomed>>

---------------------------------------------------------------------------
(* Bounds of the model *)

\* number of client connections the server ever accepts
MaxSockets == 3
\* cap on the number of User records in allSockets
MaxUsers == 3
\* number of nested generateRoomId calls (attempts) the call stack holds:
\* each collision recurses ("return generateRoomId()") and takes one frame
MaxAttempts == 2

Sockets == 1..MaxSockets

---------------------------------------------------------------------------
(* generateRoomId *)

\* the alphabet of generateRoomId, one character per position
chars ==
    <<"A","B","C","D","E","F","G","H","I","J","K","L","M",
      "N","O","P","Q","R","S","T","U","V","W","X","Y","Z",
      "a","b","c","d","e","f","g","h","i","j","k","l","m",
      "n","o","p","q","r","s","t","u","v","w","x","y","z",
      "0","1","2","3","4","5","6","7","8","9">>

\* String.prototype.charAt with a 0-based index
charAt(i) == chars[i + 1]

Upper == { chars[i] : i \in 1..26 }
Lower == { chars[i] : i \in 27..52 }
Digit == { chars[i] : i \in 53..62 }

\* /[A-Z]/.test, /[a-z]/.test, /[0-9]/.test
HasUpper(str) == \E i \in 1..Len(str) : str[i] \in Upper
HasLower(str) == \E i \in 1..Len(str) : str[i] \in Lower
HasDigit(str) == \E i \in 1..Len(str) : str[i] \in Digit

\* result + c: the first character is not dropped
AppendOnly(str, c) == Append(str, c)

\* result.substring(1) + c
DropFirstAppend(str, c) == Append(Tail(str), c)

\* One pass of generateRoomId before the uniqueness check.  rnd holds the
\* outcomes of Math.floor(Math.random() * n): idx the eight draws of the
\* loop, up / lo / dg the draw of each class fix-up (read only if it runs).
candidate(rnd) ==
    LET r0 == [i \in 1..8 |-> charAt(rnd.idx[i])]
        r1 == IF ~HasUpper(r0) THEN DropFirstAppend(r0, charAt(rnd.up)) ELSE r0
        r2 == IF ~HasLower(r1) THEN DropFirstAppend(r1, charAt(26 + rnd.lo)) ELSE r1
        r3 == IF ~HasDigit(r2) THEN DropFirstAppend(r2, charAt(52 + rnd.dg)) ELSE r2
    IN  r3

\* value standing for "every attempt explored collided"
NoId == <<>>

\* generateRoomId without the rooms.has(result) check
generateRoomIdNoCheck(rnds, rms) ==
    IF rnds = <<>> THEN NoId ELSE candidate(Head(rnds))

RECURSIVE generateRoomId(_, _)
\* rnds: the random outcomes of the successive (recursive) attempts
generateRoomId(rnds, rms) ==
    IF rnds = <<>> THEN NoId
    ELSE LET result == candidate(Head(rnds))
         IN  IF result \in DOMAIN rms
             THEN generateRoomId(Tail(rnds), rms)
             ELSE result

\* The outcomes of the random source that the model explores.
RndPool ==
    { \* "Kj8mN2pQ": all three classes present, no fix-up
      [idx |-> <<10,35,60,38,13,54,41,16>>, up |-> 0, lo |-> 0, dg |-> 0],
      \* "aaaaaaaa": no uppercase, then no digit -> "aaaaaaA0"
      [idx |-> <<26,26,26,26,26,26,26,26>>, up |-> 0, lo |-> 0, dg |-> 0],
      \* "aaaaaaA0": drawn directly, the same identifier as the one above
      [idx |-> <<26,26,26,26,26,26,0,52>>, up |-> 0, lo |-> 0, dg |-> 0] }

\* the outcomes of MaxAttempts successive attempts; generateRoomId reads them
\* up to the first one whose candidate is free
Attempts == [1..MaxAttempts -> RndPool]

RoomIds == { candidate(r) : r \in RndPool }

\* generateUserId: Math.random().toString(36).substring(2, 15), an opaque
\* token; nothing checks it against the tokens in use.
UserIds == {"u1", "u2"}

\* roomId values a client may put in a joinRoom payload
JoinIds == RoomIds \cup { <<"n","o","p","e">> }

\* chat texts
Texts == {"hi", "yo"}

---------------------------------------------------------------------------
(* Helpers over the registry *)

EmptyMap == [k \in {} |-> 0]

\* Map.set(key, value)
MapSet(m, k, v) == [x \in (DOMAIN m) \cup {k} |-> IF x = k THEN v ELSE m[x]]

\* Map.delete(key)
MapDelete(m, k) == [x \in (DOMAIN m) \ {k} |-> m[x]]

\* Array.prototype.findIndex by socket identity; 0 stands for -1 (not found)
\* the index passed to splice without the "!== -1" test: splice(-1, 1)
\* removes the last element
findIndexNoGuard(users, s) ==
    IF \E i \in 1..Len(users) : users[i].socket = s
    THEN CHOOSE i \in 1..Len(users) :
            /\ users[i].socket = s
            /\ \A j \in 1..(i - 1) : users[j].socket # s
    ELSE Len(users)

\* findLastIndex: the latest record of the socket, not the earliest
findLastIndex(users, s) ==
    IF \E i \in 1..Len(users) : users[i].socket = s
    THEN CHOOSE i \in 1..Len(users) :
            /\ users[i].socket = s
            /\ \A j \in (i + 1)..Len(users) : users[j].socket # s
    ELSE 0

findIndex(users, s) ==
    IF \E i \in 1..Len(users) : users[i].socket = s
    THEN CHOOSE i \in 1..Len(users) :
            /\ users[i].socket = s
            /\ \A j \in 1..(i - 1) : users[j].socket # s
    ELSE 0

\* the removal forgotten: the array is left as it is
spliceNone(users, i) == users

\* Array.prototype.splice(index, 1), 1-based index
splice(users, i) == [j \in 1..(Len(users) - 1) |-> IF j < i THEN users[j] ELSE users[j + 1]]

\* users.forEach(u => u.socket.send(envelope)): one envelope per record, in order
forEachSend(users, type, payload) ==
    [i \in 1..Len(users) |-> [to |-> users[i].socket, type |-> type, payload |-> payload]]

\* socket.send(envelope)
send(s, type, payload) == <<[to |-> s, type |-> type, payload |-> payload]>>

---------------------------------------------------------------------------
(* Initial state: the server listens, nobody is connected *)

\* the registry a handler starts from
Snap == [rooms |-> rooms, allSockets |-> allSockets]

\* the registry of a fresh process
NoSnap == [rooms |-> EmptyMap, allSockets |-> <<>>]

\* no joinRoom has been handled since the last close
NoneAnnounced == [k \in JoinIds |-> [prev |-> 0, last |-> 0]]

Init ==
    /\ alive = TRUE
    /\ conn = [s \in Sockets |-> "none"]
    /\ rooms = EmptyMap
    /\ allSockets = <<>>
    /\ created = [s \in Sockets |-> {}]
    /\ ev = [type |-> "init"]
    /\ pre = NoSnap
    /\ out = <<>>
    /\ announced = NoneAnnounced
    /\ gen = [pc |-> "idle"]
    /\ delivered = [s \in Sockets |-> 0]
    /\ welcomed = {}

\* wss.on("connection"): the handlers of the socket are registered.  Sockets
\* are numbered in the order in which they connect.
Connect(s) ==
    /\ alive
    /\ conn[s] = "none"
    /\ \A p \in Sockets : p < s => conn[p] # "none"
    /\ conn' = [conn EXCEPT ![s] = "open"]
    /\ pre' = Snap
    /\ ev' = [type |-> "connection", socket |-> s]
    /\ out' = <<>>
    /\ UNCHANGED <<alive, rooms, allSockets, created>>

\* An exception thrown inside an event handler is caught by nobody: the
\* process dies, and with it the registry and every connection.
Crash(event) ==
    /\ alive' = FALSE
    /\ conn' = [s \in Sockets |-> IF conn[s] = "open" THEN "closed" ELSE conn[s]]
    /\ rooms' = EmptyMap
    /\ allSockets' = <<>>
    /\ created' = [s \in Sockets |-> {}]
    /\ ev' = event
    /\ pre' = NoSnap
    /\ out' = <<>>

---------------------------------------------------------------------------
(* socket.on("message"): one action per shape of the inbound payload *)

\* JSON.parse(message.toString()) of a payload that is no envelope.
\*   "invalidJSON": JSON.parse throws SyntaxError;
\*   "null":        JSON.parse returns null, parsedMessage.type throws TypeError;
\*   "nonObject":   a number, string or array: parsedMessage.type is undefined
\*                  and none of the three branches is taken.
Malformed(s, kind) ==
    /\ alive
    /\ conn[s] = "open"
    /\ IF kind \in {"invalidJSON", "null"}
       THEN Crash([type |-> "malformed", socket |-> s, kind |-> kind])
       ELSE /\ ev' = [type |-> "malformed", socket |-> s, kind |-> kind]
            /\ pre' = Snap
            /\ out' = <<>>
            /\ UNCHANGED <<alive, conn, rooms, allSockets, created>>

\* createRoom when the identifier of every attempt is taken: generateRoomId
\* recurses once per collision, the call stack runs out of frames and
\* RangeError (Maximum call stack size exceeded) leaves the message listener.
CreateRoomOverflow(s, rnds) ==
    /\ alive
    /\ conn[s] = "open"
    /\ generateRoomId(rnds, rooms) = NoId
    /\ Crash([type |-> "stackOverflow", socket |-> s, of |-> "createRoom"])

\* createRoom without allSockets.push(user): the creator is a member of the
\* room and has no Connection-User record
CreateRoomNoPush(s, rnds, userId) ==
    LET roomId == generateRoomId(rnds, rooms)
        user   == [socket |-> s, room |-> roomId, userId |-> userId]
        room   == [id |-> roomId, users |-> <<user>>]
    IN  /\ alive
        /\ conn[s] = "open"
        /\ Len(allSockets) < MaxUsers
        /\ roomId # NoId
        /\ rooms' = MapSet(rooms, roomId, room)
        /\ out' = send(s, "roomCreated", [roomId |-> roomId, userId |-> userId])
        /\ created' = [created EXCEPT ![s] = @ \cup {roomId}]
        /\ pre' = Snap
        /\ ev' = [type |-> "createRoom", socket |-> s]
        /\ UNCHANGED <<alive, conn, allSockets>>

\* parsedMessage.type === "createRoom"
CreateRoom(s, rnds, userId) ==
    LET roomId == generateRoomId(rnds, rooms)
        user   == [socket |-> s, room |-> roomId, userId |-> userId]
        room   == [id |-> roomId, users |-> <<user>>]
    IN  /\ alive
        /\ conn[s] = "open"
        /\ Len(allSockets) < MaxUsers
        /\ roomId # NoId
        /\ rooms' = MapSet(rooms, roomId, room)
        /\ allSockets' = Append(allSockets, user)
        /\ out' = send(s, "roomCreated", [roomId |-> roomId, userId |-> userId])
        /\ created' = [created EXCEPT ![s] = @ \cup {roomId}]
        /\ pre' = Snap
        /\ ev' = [type |-> "createRoom", socket |-> s]
        /\ UNCHANGED <<alive, conn>>

\* JoinFound announcing room.users.length, without the + 1 for the new user
JoinFoundStaleCount(s, roomId, userId) ==
    LET room   == rooms[roomId]
        notify == forEachSend(room.users, "userJoined",
                              [userCount |-> Len(room.users)])
        user   == [socket |-> s, room |-> roomId, userId |-> userId]
        users2 == Append(room.users, user)
    IN  /\ Len(allSockets) < MaxUsers
        /\ rooms' = [rooms EXCEPT ![roomId].users = users2]
        /\ allSockets' = Append(allSockets, user)
        /\ out' = notify \o send(s, "roomJoined",
                                 [roomId |-> roomId, userId |-> userId,
                                  userCount |-> Len(users2)])

\* JoinFound computing the count from the room as the previous event found
\* it: a handler that does not run as one unit, overtaken between its read of
\* room.users.length and its push
JoinFoundStaleRead(s, roomId, userId) ==
    LET room   == rooms[roomId]
        seen   == IF roomId \in DOMAIN pre.rooms
                  THEN Len(pre.rooms[roomId].users)
                  ELSE Len(room.users)
        notify == forEachSend(room.users, "userJoined", [userCount |-> seen + 1])
        user   == [socket |-> s, room |-> roomId, userId |-> userId]
        users2 == Append(room.users, user)
    IN  /\ Len(allSockets) < MaxUsers
        /\ rooms' = [rooms EXCEPT ![roomId].users = users2]
        /\ allSockets' = Append(allSockets, user)
        /\ out' = notify \o send(s, "roomJoined",
                                 [roomId |-> roomId, userId |-> userId,
                                  userCount |-> seen + 1])

\* JoinFound notifying every record of allSockets, not those of the room
JoinFoundNotifyAll(s, roomId, userId) ==
    LET room   == rooms[roomId]
        notify == forEachSend(allSockets, "userJoined",
                              [userCount |-> Len(room.users) + 1])
        user   == [socket |-> s, room |-> roomId, userId |-> userId]
        users2 == Append(room.users, user)
    IN  /\ Len(allSockets) < MaxUsers
        /\ rooms' = [rooms EXCEPT ![roomId].users = users2]
        /\ allSockets' = Append(allSockets, user)
        /\ out' = notify \o send(s, "roomJoined",
                                 [roomId |-> roomId, userId |-> userId,
                                  userCount |-> Len(users2)])

\* JoinFound adding the new user first and notifying afterwards: the joiner
\* is among the notified
JoinFoundPushFirst(s, roomId, userId) ==
    LET room   == rooms[roomId]
        user   == [socket |-> s, room |-> roomId, userId |-> userId]
        users2 == Append(room.users, user)
        notify == forEachSend(users2, "userJoined", [userCount |-> Len(users2)])
    IN  /\ Len(allSockets) < MaxUsers
        /\ rooms' = [rooms EXCEPT ![roomId].users = users2]
        /\ allSockets' = Append(allSockets, user)
        /\ out' = notify \o send(s, "roomJoined",
                                 [roomId |-> roomId, userId |-> userId,
                                  userCount |-> Len(users2)])

\* joinRoom, rooms.has(roomId): notify the members, then add the new user
JoinFound(s, roomId, userId) ==
    LET room   == rooms[roomId]
        notify == forEachSend(room.users, "userJoined",
                              [userCount |-> Len(room.users) + 1])
        user   == [socket |-> s, room |-> roomId, userId |-> userId]
        users2 == Append(room.users, user)
    IN  /\ Len(allSockets) < MaxUsers
        /\ rooms' = [rooms EXCEPT ![roomId].users = users2]
        /\ allSockets' = Append(allSockets, user)
        /\ out' = notify \o send(s, "roomJoined",
                                 [roomId |-> roomId, userId |-> userId,
                                  userCount |-> Len(users2)])

\* the else branch without its socket.send
JoinNotFoundSilent(s) ==
    /\ out' = <<>>
    /\ UNCHANGED <<rooms, allSockets>>

\* joinRoom, the else branch
JoinNotFound(s) ==
    /\ out' = send(s, "error", [message |-> "Room not found"])
    /\ UNCHANGED <<rooms, allSockets>>

\* parsedMessage.type === "joinRoom", with a payload object
JoinRoom(s, roomId, userId) ==
    /\ alive
    /\ conn[s] = "open"
    /\ pre' = Snap
    /\ ev' = [type |-> "joinRoom", socket |-> s, roomId |-> roomId]
    /\ IF roomId \in DOMAIN rooms
       THEN JoinFound(s, roomId, userId)
       ELSE JoinNotFound(s)
    /\ UNCHANGED <<alive, conn, created>>

\* chat relayed to every record of allSockets, whatever the room and whether
\* or not the sender has a record
ChatToAll(s, text) ==
    /\ alive
    /\ conn[s] = "open"
    /\ pre' = Snap
    /\ ev' = [type |-> "chat", socket |-> s, message |-> text]
    /\ out' = forEachSend(allSockets, "message", [message |-> text, userId |-> "?"])
    /\ UNCHANGED <<alive, conn, rooms, allSockets, created>>

\* chat that also prunes the records of closed connections from the room it
\* relays to
ChatPruning(s, text) ==
    LET userIndex       == findIndex(allSockets, s)
        currentUserRoom == IF userIndex # 0 THEN allSockets[userIndex].room ELSE NoId
    IN  /\ alive
        /\ conn[s] = "open"
        /\ pre' = Snap
        /\ ev' = [type |-> "chat", socket |-> s, message |-> text]
        /\ IF currentUserRoom # NoId /\ currentUserRoom \in DOMAIN rooms
           THEN /\ out' = forEachSend(rooms[currentUserRoom].users, "message",
                                      [message |-> text,
                                       userId |-> allSockets[userIndex].userId])
                /\ rooms' = [rooms EXCEPT ![currentUserRoom].users =
                                 SelectSeq(@, LAMBDA u : conn[u.socket] = "open")]
           ELSE /\ out' = <<>>
                /\ UNCHANGED rooms
        /\ UNCHANGED <<alive, conn, allSockets, created>>

\* parsedMessage.type === "chat", with a payload object
Chat(s, text) ==
    LET userIndex       == findIndex(allSockets, s)
        currentUserRoom == IF userIndex # 0 THEN allSockets[userIndex].room ELSE NoId
    IN  /\ alive
        /\ conn[s] = "open"
        /\ pre' = Snap
        /\ ev' = [type |-> "chat", socket |-> s, message |-> text]
        /\ IF currentUserRoom # NoId /\ currentUserRoom \in DOMAIN rooms
           THEN out' = forEachSend(rooms[currentUserRoom].users, "message",
                                   [message |-> text,
                                    userId |-> allSockets[userIndex].userId])
           ELSE out' = <<>>
        /\ UNCHANGED <<alive, conn, rooms, allSockets, created>>

\* type "joinRoom" or "chat" and no payload: reading a property of
\* parsedMessage.payload (undefined) throws TypeError.
MissingPayload(s, type) ==
    /\ alive
    /\ conn[s] = "open"
    /\ Crash([type |-> "missingPayload", socket |-> s, of |-> type])

\* an unknown type answered with an error envelope
OtherTypeReply(s) ==
    /\ alive
    /\ conn[s] = "open"
    /\ pre' = Snap
    /\ ev' = [type |-> "other", socket |-> s]
    /\ out' = send(s, "error", [message |-> "Unknown message type"])
    /\ UNCHANGED <<alive, conn, rooms, allSockets, created>>

\* any other type: none of the three branches is taken
OtherType(s) ==
    /\ alive
    /\ conn[s] = "open"
    /\ pre' = Snap
    /\ ev' = [type |-> "other", socket |-> s]
    /\ out' = <<>>
    /\ UNCHANGED <<alive, conn, rooms, allSockets, created>>

---------------------------------------------------------------------------
(* socket.on("close") *)

\* rooms.delete(user.room) without the room.users.length === 0 test
roomsAfterLeaveAlwaysDelete(rms, roomId, users2) ==
    MapDelete(rms, roomId)

\* the room kept in the map whatever is left of its users
roomsAfterLeaveNeverDelete(rms, roomId, users2) ==
    [rms EXCEPT ![roomId].users = users2]

\* the room map after room.users.splice(roomUserIndex, 1) left users2:
\* "Delete room if empty"
roomsAfterLeave(rms, roomId, users2) ==
    IF Len(users2) = 0
    THEN MapDelete(rms, roomId)
    ELSE [rms EXCEPT ![roomId].users = users2]

Close(s) ==
    LET userIndex == findIndex(allSockets, s)
    IN  /\ alive
        /\ conn[s] = "open"
        /\ conn' = [conn EXCEPT ![s] = "closed"]
        /\ created' = [created EXCEPT ![s] = {}]
        /\ pre' = Snap
        /\ ev' = [type |-> "close", socket |-> s]
        /\ IF userIndex # 0
           THEN LET user == allSockets[userIndex]
                IN  /\ allSockets' = splice(allSockets, userIndex)
                    /\ IF user.room \in DOMAIN rooms
                       THEN LET room          == rooms[user.room]
                                roomUserIndex == findIndex(room.users, s)
                                users2        == splice(room.users, roomUserIndex)
                            IN  IF roomUserIndex # 0
                                THEN /\ out' = forEachSend(users2, "userLeft",
                                                   [userCount |-> Len(users2)])
                                     /\ rooms' = roomsAfterLeave(rooms, user.room, users2)
                                ELSE /\ out' = <<>>
                                     /\ UNCHANGED rooms
                       ELSE /\ out' = <<>>
                            /\ UNCHANGED rooms
           ELSE /\ out' = <<>>
                /\ UNCHANGED <<rooms, allSockets>>
        /\ UNCHANGED alive

---------------------------------------------------------------------------

\* the server alone handles events: the announcements are not recorded and
\* generateRoomId is called by createRoom only
Idle == UNCHANGED <<announced, gen, delivered, welcomed>>

Next ==
    \/ \E s \in Sockets : Connect(s) /\ Idle
    \/ \E s \in Sockets, kind \in {"invalidJSON", "null", "nonObject"} :
          Malformed(s, kind) /\ Idle
    \/ \E s \in Sockets, rnds \in Attempts, u \in UserIds :
          CreateRoom(s, rnds, u) /\ Idle
    \/ \E s \in Sockets, rnds \in Attempts : CreateRoomOverflow(s, rnds) /\ Idle
    \/ \E s \in Sockets, r \in JoinIds, u \in UserIds : JoinRoom(s, r, u) /\ Idle
    \/ \E s \in Sockets, t \in Texts : Chat(s, t) /\ Idle
    \/ \E s \in Sockets, type \in {"joinRoom", "chat"} :
          MissingPayload(s, type) /\ Idle
    \/ \E s \in Sockets : OtherType(s) /\ Idle
    \/ \E s \in Sockets : Close(s) /\ Idle

Spec == Init /\ [][Next]_vars

---------------------------------------------------------------------------
(* The server with the announced user counts recorded *)

\* the event just handled was a joinRoom that found its room
JoinedNow(e, o) ==
    /\ e.type = "joinRoom"
    /\ o # <<>>
    /\ o[Len(o)].type = "roomJoined"

\* what the handler that just ran announced: a close, or the death of the
\* process, ends every run of joins; a successful joinRoom adds its userCount
\* to the run of its room
Track ==
    /\ announced' =
          IF ev'.type = "close" \/ ~alive'
          THEN NoneAnnounced
          ELSE IF JoinedNow(ev', out')
               THEN [announced EXCEPT ![ev'.roomId] =
                         [prev |-> @.last,
                          last |-> out'[Len(out')].payload.userCount]]
               ELSE announced
    /\ UNCHANGED <<gen, delivered, welcomed>>

\* the handlers run one after the other, each to its end, in any order of
\* the connections' events
NextJoins ==
    \/ \E s \in Sockets : Connect(s) /\ Track
    \/ \E s \in Sockets, kind \in {"invalidJSON", "null", "nonObject"} :
          Malformed(s, kind) /\ Track
    \/ \E s \in Sockets, rnds \in Attempts, u \in UserIds :
          CreateRoom(s, rnds, u) /\ Track
    \/ \E s \in Sockets, rnds \in Attempts : CreateRoomOverflow(s, rnds) /\ Track
    \/ \E s \in Sockets, r \in JoinIds, u \in UserIds : JoinRoom(s, r, u) /\ Track
    \/ \E s \in Sockets, t \in Texts : Chat(s, t) /\ Track
    \/ \E s \in Sockets, type \in {"joinRoom", "chat"} :
          MissingPayload(s, type) /\ Track
    \/ \E s \in Sockets : OtherType(s) /\ Track
    \/ \E s \in Sockets : Close(s) /\ Track

SpecJoins == Init /\ [][NextJoins]_vars

---------------------------------------------------------------------------
(* The server with the user counts that reach each connection recorded *)

\* the envelopes that carry a userCount (frontend: setUserCount on
\* userJoined and userLeft; roomJoined carries the count of the join)
CountTypes == {"roomJoined", "userJoined", "userLeft"}

\* the userCount connection s holds after the envelopes o, having held old
LastCount(o, s, old) ==
    LET I == { i \in 1..Len(o) : o[i].to = s /\ o[i].type \in CountTypes }
    IN  IF I = {} THEN old
        ELSE o[CHOOSE i \in I : \A j \in I : j <= i].payload.userCount

\* what the handler that just ran delivered: a closed connection receives
\* nothing and holds nothing
TrackCounts ==
    /\ delivered' = [s \in Sockets |->
                        IF conn'[s] # "open" THEN 0
                        ELSE LastCount(out', s, delivered[s])]
    /\ UNCHANGED <<announced, gen, welcomed>>

NextCounts ==
    \/ \E s \in Sockets : Connect(s) /\ TrackCounts
    \/ \E s \in Sockets, kind \in {"invalidJSON", "null", "nonObject"} :
          Malformed(s, kind) /\ TrackCounts
    \/ \E s \in Sockets, rnds \in Attempts, u \in UserIds :
          CreateRoom(s, rnds, u) /\ TrackCounts
    \/ \E s \in Sockets, rnds \in Attempts : CreateRoomOverflow(s, rnds) /\ TrackCounts
    \/ \E s \in Sockets, r \in JoinIds, u \in UserIds : JoinRoom(s, r, u) /\ TrackCounts
    \/ \E s \in Sockets, t \in Texts : Chat(s, t) /\ TrackCounts
    \/ \E s \in Sockets, type \in {"joinRoom", "chat"} :
          MissingPayload(s, type) /\ TrackCounts
    \/ \E s \in Sockets : OtherType(s) /\ TrackCounts
    \/ \E s \in Sockets : Close(s) /\ TrackCounts

SpecCounts == Init /\ [][NextCounts]_vars

---------------------------------------------------------------------------
(* The server with the connections that were told of their binding recorded *)

\* the envelopes that tell a connection it is bound to a room
BindingTypes == {"roomCreated", "roomJoined"}

\* the envelopes relayed to the members of a room
RelayTypes == {"message", "userJoined", "userLeft"}

\* the connections the envelopes o tell of a binding
ToldBound(o) == { o[i].to : i \in { j \in 1..Len(o) : o[j].type \in BindingTypes } }

\* before the next handler runs, the bindings told by the last one are
\* added; nothing is kept of a dead process
TrackOrder ==
    /\ welcomed' = IF alive' THEN welcomed \cup ToldBound(out) ELSE {}
    /\ UNCHANGED <<announced, gen, delivered>>

NextOrder ==
    \/ \E s \in Sockets : Connect(s) /\ TrackOrder
    \/ \E s \in Sockets, kind \in {"invalidJSON", "null", "nonObject"} :
          Malformed(s, kind) /\ TrackOrder
    \/ \E s \in Sockets, rnds \in Attempts, u \in UserIds :
          CreateRoom(s, rnds, u) /\ TrackOrder
    \/ \E s \in Sockets, rnds \in Attempts : CreateRoomOverflow(s, rnds) /\ TrackOrder
    \/ \E s \in Sockets, r \in JoinIds, u \in UserIds : JoinRoom(s, r, u) /\ TrackOrder
    \/ \E s \in Sockets, t \in Texts : Chat(s, t) /\ TrackOrder
    \/ \E s \in Sockets, type \in {"joinRoom", "chat"} :
          MissingPayload(s, type) /\ TrackOrder
    \/ \E s \in Sockets : OtherType(s) /\ TrackOrder
    \/ \E s \in Sockets : Close(s) /\ TrackOrder

SpecOrder == Init /\ [][NextOrder]_vars

---------------------------------------------------------------------------
(* generateRoomId on its own: one call, every outcome of its random draws *)

\* Math.floor(Math.random() * chars.length) in the loop: one index per
\* character class ("A", "a", "0")
GenIdx == {0, 26, 52}

\* Math.floor(Math.random() * 26) twice and Math.floor(Math.random() * 10)
\* in the fix-ups: the low ends of the three ranges, or the high ends
GenFix == { [up |-> 0, lo |-> 0, dg |-> 0], [up |-> 25, lo |-> 25, dg |-> 9] }

\* the draws of one attempt: the eight of the loop, and the three that the
\* fix-ups make when they fire
GenRnds ==
    { [idx |-> f, up |-> d.up, lo |-> d.lo, dg |-> d.dg] :
          f \in [1..8 -> GenIdx], d \in GenFix }

\* the registry the call may find: empty, or holding the identifier rnd yields
Registered(rnd) == MapSet(EmptyMap, candidate(rnd), [id |-> candidate(rnd), users |-> <<>>])

\* the calls explored: a first attempt with any draws, on a registry where
\* its identifier is free, or on one where it is taken and the call
\* regenerates with the draws of a second attempt
GenCalls ==
    { [pc |-> "called", rnds |-> <<r>>, rms |-> EmptyMap] : r \in GenRnds }
        \cup
    { [pc |-> "called", rnds |-> <<r, q>>, rms |-> Registered(r)] :
          r \in GenRnds, q \in RndPool }

InitGen ==
    /\ alive = TRUE
    /\ conn = [s \in Sockets |-> "none"]
    /\ rooms = EmptyMap
    /\ allSockets = <<>>
    /\ created = [s \in Sockets |-> {}]
    /\ ev = [type |-> "init"]
    /\ pre = NoSnap
    /\ out = <<>>
    /\ announced = NoneAnnounced
    /\ gen \in GenCalls
    /\ delivered = [s \in Sockets |-> 0]
    /\ welcomed = {}

\* the call runs: it returns an identifier, or is still regenerating when
\* the explored attempts are used up
Generate ==
    /\ gen.pc = "called"
    /\ LET result == generateRoomId(gen.rnds, gen.rms)
       IN  gen' = [pc     |-> IF result = NoId THEN "regenerating" ELSE "returned",
                   rnds   |-> gen.rnds,
                   rms    |-> gen.rms,
                   result |-> result]
    /\ UNCHANGED <<srv, announced, delivered, welcomed>>

NextGen == Generate

SpecGen == InitGen /\ [][NextGen]_vars

---------------------------------------------------------------------------
(* Vocabulary of the properties *)

\* the indices of the records of socket s in a User[]
RecordsOf(users, s) == { i \in 1..Len(users) : users[i].socket = s }

\* the records of socket s in the member collections of the registered rooms
RoomRecordsOf(rms, s) ==
    { <<k, i>> \in (DOMAIN rms) \X (1..MaxUsers) :
        i <= Len(rms[k].users) /\ rms[k].users[i].socket = s }

\* the positions of `envs` holding an envelope of type `type` addressed to s
SentTo(envs, s, type) ==
    { i \in 1..Len(envs) : envs[i].to = s /\ envs[i].type = type }

\* the positions of `envs` holding an envelope of type `type`
SentOfType(envs, type) == { i \in 1..Len(envs) : envs[i].type = type }

---------------------------------------------------------------------------
(* C1 *)

\* C1: createRoom never returns an identifier that is the key of a room
\* still registered: the identifier in roomCreated was no key before the
\* event, the event added exactly that key, every room registered before is
\* as it was (nothing is overwritten), and every room's id field is its
\* key, so the identifiers of the registered rooms are pairwise distinct.
C1_CreateRoomFreshId ==
    ev.type = "createRoom" =>
        LET id == out[1].payload.roomId
        IN  /\ id \notin DOMAIN pre.rooms
            /\ DOMAIN rooms = (DOMAIN pre.rooms) \cup {id}
            /\ \A k \in DOMAIN pre.rooms : rooms[k] = pre.rooms[k]
            /\ \A k \in DOMAIN rooms : rooms[k].id = k

\* a createRoom was handled while another room was registered
C1_Witness ==
    /\ ev.type = "createRoom"
    /\ Cardinality(DOMAIN pre.rooms) = 1
    /\ Cardinality(DOMAIN rooms) = 2

(* C2 *)

\* C2: after a payload that cannot be parsed as an envelope is received,
\* the process runs, the sending connection is still open, no envelope was
\* sent and the registry is exactly as before.
C2_MalformedIsolated ==
    ev.type = "malformed" =>
        /\ alive
        /\ conn[ev.socket] = "open"
        /\ out = <<>>
        /\ rooms = pre.rooms
        /\ allSockets = pre.allSockets

(* C3 *)

\* C3: a connection has at most one Connection-User record, in allSockets
\* and in the member collections of the rooms.
C3_AtMostOneRecord ==
    \A s \in Sockets :
        /\ Cardinality(RecordsOf(allSockets, s)) <= 1
        /\ Cardinality(RoomRecordsOf(rooms, s)) <= 1

(* C4 *)

\* C4: once the close event of a connection has been handled, no record
\* referring to it remains in allSockets or in any room.
C4_NoRecordAfterClose ==
    \A s \in Sockets :
        conn[s] = "closed" =>
            /\ RecordsOf(allSockets, s) = {}
            /\ RoomRecordsOf(rooms, s) = {}

(* C5 *)

\* C5: when a connection closes that is the last member of a room (every
\* record of the room is its own), the room's key is removed by that
\* event; and a joinRoom with an identifier that is no key is answered
\* with error "Room not found".
C5_LastMemberCloseRemovesRoom ==
    /\ ev.type = "close" =>
          \A k \in DOMAIN pre.rooms :
              (\A i \in 1..Len(pre.rooms[k].users) :
                  pre.rooms[k].users[i].socket = ev.socket)
              => k \notin DOMAIN rooms
    /\ (ev.type = "joinRoom" /\ ev.roomId \notin DOMAIN pre.rooms) =>
          /\ Len(out) = 1
          /\ out[1].type = "error"
          /\ out[1].payload.message = "Room not found"

(* C6 *)

\* C6: when a member of a room with N >= 2 member records closes, out
\* holds exactly one userLeft{N-1} for each of the N-1 remaining records
\* and no userLeft addressed to the connection that closed.
C6_UserLeftToRemaining ==
    ev.type = "close" =>
        \A k \in DOMAIN pre.rooms :
            LET users == pre.rooms[k].users
                N     == Len(users)
                s     == ev.socket
            IN  (RecordsOf(users, s) # {} /\ N >= 2) =>
                  /\ SentTo(out, s, "userLeft") = {}
                  /\ Cardinality(SentOfType(out, "userLeft")) = N - 1
                  /\ \A c \in Sockets \ {s} :
                        Cardinality(SentTo(out, c, "userLeft"))
                            = Cardinality(RecordsOf(users, c))
                  /\ \A i \in SentOfType(out, "userLeft") :
                        out[i].payload.userCount = N - 1

(* C7 *)

\* C7: a chat sent by a member of a room with N member records produces
\* exactly N message envelopes, one per member record of that room, each
\* carrying the text sent and a userId of the sender.
C7_ChatReachesRoom ==
    ev.type = "chat" =>
        \A k \in DOMAIN pre.rooms :
            LET users == pre.rooms[k].users
                s     == ev.socket
            IN  RecordsOf(users, s) # {} =>
                  /\ Len(out) = Len(users)
                  /\ \A c \in Sockets :
                        Cardinality(SentTo(out, c, "message"))
                            = Cardinality(RecordsOf(users, c))
                  /\ \A i \in 1..Len(out) :
                        /\ out[i].payload.message = ev.message
                        /\ \E j \in RecordsOf(pre.allSockets, s) :
                              out[i].payload.userId = pre.allSockets[j].userId

(* C8 *)

\* C8: a successful joinRoom into a room with k member records sends one
\* userJoined{k+1} to each of them, in order, then roomJoined{k+1} to the
\* joiner as the last envelope and to nobody else; the joiner's record is
\* appended to the member collection.
C8_JoinNotifiesThenReplies ==
    (ev.type = "joinRoom" /\ ev.roomId \in DOMAIN pre.rooms) =>
        LET rid   == ev.roomId
            users == pre.rooms[rid].users
            k     == Len(users)
        IN  /\ Len(out) = k + 1
            /\ \A i \in 1..k :
                  out[i] = [to |-> users[i].socket, type |-> "userJoined",
                            payload |-> [userCount |-> k + 1]]
            /\ out[k + 1].to = ev.socket
            /\ out[k + 1].type = "roomJoined"
            /\ out[k + 1].payload.roomId = rid
            /\ out[k + 1].payload.userCount = k + 1
            /\ SentOfType(out, "roomJoined") = {k + 1}
            /\ rid \in DOMAIN rooms
            /\ Len(rooms[rid].users) = k + 1
            /\ \A i \in 1..k : rooms[rid].users[i] = users[i]
            /\ rooms[rid].users[k + 1].socket = ev.socket
            /\ rooms[rid].users[k + 1].userId = out[k + 1].payload.userId

\* a join into a room of two members: two userJoined{3}, then roomJoined{3}
C8_Witness ==
    /\ ev.type = "joinRoom"
    /\ ev.roomId \in DOMAIN pre.rooms
    /\ Len(pre.rooms[ev.roomId].users) = 2
    /\ Len(out) = 3
    /\ out[1].type = "userJoined" /\ out[1].payload.userCount = 3
    /\ out[3].type = "roomJoined" /\ out[3].payload.userCount = 3

(* C9 *)

\* C9: joinRoom with a roomId that is no key of rooms sends exactly one
\* error "Room not found", to the caller, and leaves rooms (with every
\* member collection) and allSockets unchanged.
C9_JoinUnknownRoom ==
    (ev.type = "joinRoom" /\ ev.roomId \notin DOMAIN pre.rooms) =>
        /\ out = <<[to |-> ev.socket, type |-> "error",
                    payload |-> [message |-> "Room not found"]]>>
        /\ rooms = pre.rooms
        /\ allSockets = pre.allSockets

\* a joinRoom was answered with the error while another room was registered
C9_Witness ==
    /\ ev.type = "joinRoom"
    /\ ev.roomId \notin DOMAIN pre.rooms
    /\ Len(out) = 1
    /\ out[1].type = "error"
    /\ out[1].to = ev.socket
    /\ rooms # EmptyMap
    /\ allSockets # <<>>

(* C10 *)

\* C10: a joinRoom by a connection with a roomId that another, still open
\* connection was sent in roomCreated is answered with roomJoined for that
\* room, never with an error.  (joinRoom changes neither conn nor created.)
C10_CreatedRoomJoinable ==
    ev.type = "joinRoom" =>
        ((\E c \in Sockets \ {ev.socket} :
              conn[c] = "open" /\ ev.roomId \in created[c])
         => /\ ev.roomId \in DOMAIN pre.rooms
            /\ SentOfType(out, "error") = {}
            /\ \E i \in SentTo(out, ev.socket, "roomJoined") :
                  out[i].payload.roomId = ev.roomId)

\* a second connection joined the room of a creator that is still open,
\* after a third connection had closed
C10_Witness ==
    /\ ev.type = "joinRoom"
    /\ \E c \in Sockets \ {ev.socket} :
          conn[c] = "open" /\ ev.roomId \in created[c]
    /\ \E c \in Sockets : conn[c] = "closed"
    /\ Len(out) >= 1
    /\ out[Len(out)].type = "roomJoined"

(* C11 *)

\* C11: handling createRoom (to its end: C19 is about whether it gets
\* there) registers exactly one new room, whose member
\* collection holds exactly one record, the caller's; appends that record to
\* allSockets; sends exactly one envelope, roomCreated{roomId, userId}, to
\* the caller and nothing to anyone else; and leaves every other room as it
\* was.
C11_CreateRoomRegistersCaller ==
    ev.type = "createRoom" =>
        LET new == (DOMAIN rooms) \ (DOMAIN pre.rooms)
        IN  /\ Cardinality(new) = 1
            /\ \A k \in new :
                  /\ rooms[k].id = k
                  /\ Len(rooms[k].users) = 1
                  /\ rooms[k].users[1].socket = ev.socket
                  /\ rooms[k].users[1].room = k
                  /\ allSockets = Append(pre.allSockets, rooms[k].users[1])
                  /\ out = <<[to      |-> ev.socket,
                              type    |-> "roomCreated",
                              payload |-> [roomId |-> k,
                                           userId |-> rooms[k].users[1].userId]]>>
            /\ \A k \in DOMAIN pre.rooms :
                  k \in DOMAIN rooms /\ rooms[k] = pre.rooms[k]

\* a room is created while another connection holds a room of two members
C11_Witness ==
    /\ ev.type = "createRoom"
    /\ Len(out) = 1
    /\ \E k \in DOMAIN pre.rooms :
          /\ Len(pre.rooms[k].users) = 2
          /\ RecordsOf(pre.rooms[k].users, ev.socket) = {}

(* C12 *)

\* C12: room isolation.  Every envelope a chat produces is a message
\* envelope addressed to a connection with a record in the member collection
\* of one room in which the sender has a record (the room of the sender's
\* Connection-User record); a connection whose records are all in other
\* rooms, and a connection with no record in any room, receives none.
C12_RoomIsolation ==
    ev.type = "chat" =>
        LET bound == { k \in DOMAIN pre.rooms :
                         RecordsOf(pre.rooms[k].users, ev.socket) # {} }
        IN  /\ \A i \in 1..Len(out) : out[i].type = "message"
            /\ out # <<>> =>
                  \E k \in bound :
                      \A i \in 1..Len(out) :
                          RecordsOf(pre.rooms[k].users, out[i].to) # {}
            /\ \A c \in Sockets :
                  (\A k \in bound : RecordsOf(pre.rooms[k].users, c) = {})
                      => SentTo(out, c, "message") = {}

\* a chat is relayed in a room of two while an open connection is a member
\* of another room only
C12_Witness ==
    /\ ev.type = "chat"
    /\ Len(out) = 2
    /\ \E c \in Sockets, k \in DOMAIN pre.rooms :
          /\ conn[c] = "open"
          /\ c # ev.socket
          /\ RecordsOf(pre.rooms[k].users, c) # {}
          /\ RecordsOf(pre.rooms[k].users, ev.socket) = {}
          /\ SentTo(out, c, "message") = {}

(* C13 *)

\* C13: a chat from a connection that has no Connection-User record is
\* dropped in silence: no envelope is sent to anyone, the sender included,
\* and rooms and allSockets are unchanged.
C13_UnboundChatDropped ==
    (ev.type = "chat" /\ RecordsOf(pre.allSockets, ev.socket) = {}) =>
        /\ out = <<>>
        /\ rooms = pre.rooms
        /\ allSockets = pre.allSockets

\* a connection that never created or joined chats while a room has members
C13_Witness ==
    /\ ev.type = "chat"
    /\ RecordsOf(pre.allSockets, ev.socket) = {}
    /\ pre.allSockets # <<>>
    /\ pre.rooms # EmptyMap
    /\ alive

(* C14 *)

\* C14: an envelope whose type is none of createRoom, joinRoom and chat is a
\* no-op: nothing is sent and rooms and allSockets are unchanged.
C14_UnknownTypeNoOp ==
    ev.type = "other" =>
        /\ out = <<>>
        /\ rooms = pre.rooms
        /\ allSockets = pre.allSockets

\* a member of a room of two sends an envelope of an unknown type
C14_Witness ==
    /\ ev.type = "other"
    /\ \E k \in DOMAIN rooms :
          /\ Len(rooms[k].users) = 2
          /\ RecordsOf(rooms[k].users, ev.socket) # {}

(* C15 *)

\* C15: in every reachable state every registered room has at least one
\* record in its member collection: the close that removes the last record
\* of a room removes the room in the same step.
C15_NoEmptyRoom ==
    \A k \in DOMAIN rooms : Len(rooms[k].users) >= 1

\* a close has just removed the only record of a room, and the room with it,
\* while another room stays registered
C15_Witness ==
    /\ ev.type = "close"
    /\ rooms # EmptyMap
    /\ \E k \in (DOMAIN pre.rooms) \ (DOMAIN rooms) :
          /\ Len(pre.rooms[k].users) = 1
          /\ pre.rooms[k].users[1].socket = ev.socket

(* C16 *)

\* C16: every identifier generateRoomId returns, whatever the random draws
\* and whichever of the three fix-ups fire, and also when it comes from a
\* regeneration, is exactly 8 characters long, each of them from A-Z, a-z,
\* 0-9.
C16_IdIsEightAlphanumerics ==
    gen.pc = "returned" =>
        /\ Len(gen.result) = 8
        /\ \A i \in 1..Len(gen.result) :
              gen.result[i] \in Upper \cup Lower \cup Digit

\* the call returned after two fix-ups fired (eight lowercase letters drawn)
C16_Witness ==
    /\ gen.pc = "returned"
    /\ ~HasUpper([i \in 1..8 |-> charAt(gen.rnds[1].idx[i])])
    /\ ~HasDigit([i \in 1..8 |-> charAt(gen.rnds[1].idx[i])])
    /\ HasUpper(gen.result)
    /\ HasDigit(gen.result)

(* C17 *)

\* C17: every identifier generateRoomId returns contains at least one
\* uppercase letter, at least one lowercase letter and at least one digit.
C17_IdHasEveryClass ==
    gen.pc = "returned" =>
        /\ HasUpper(gen.result)
        /\ HasLower(gen.result)
        /\ HasDigit(gen.result)

(* C18 *)

\* C18: user identifiers are unique per connection: no two Connection-User
\* records that exist at the same time and belong to different connections
\* carry the same userId.
C18_UserIdsUnique ==
    \A i, j \in 1..Len(allSockets) :
        allSockets[i].socket # allSockets[j].socket
            => allSockets[i].userId # allSockets[j].userId

(* C19 *)

\* C19: createRoom always succeeds: in every reachable state of the
\* registry the handling of a createRoom event ends, the process alive, with
\* one roomCreated envelope to the caller; it never fails.
C19_CreateRoomAlwaysSucceeds ==
    (ev.type = "createRoom" \/ (ev.type = "stackOverflow" /\ ev.of = "createRoom")) =>
        /\ alive
        /\ Len(out) = 1
        /\ out[1].type = "roomCreated"
        /\ out[1].to = ev.socket

(* C20 *)

\* C20: the handlers run as atomic units in every interleaving of the
\* connections' events: of two successful joinRoom on the same room with no
\* close handled in between, whatever else is handled in between, the second
\* announces exactly one more than the first (never the same userCount), and
\* every envelope of one joinRoom announces the same userCount.
C20_ConsecutiveJoinsCountUp ==
    /\ \A k \in JoinIds :
          announced[k].prev # 0 => announced[k].last = announced[k].prev + 1
    /\ JoinedNow(ev, out) =>
          \A i \in 1..Len(out) :
              out[i].payload.userCount = announced[ev.roomId].last

\* two connections have joined the room of a third one after the other, with
\* no close in between: 2 was announced, then 3
C20_Witness ==
    /\ JoinedNow(ev, out)
    /\ announced[ev.roomId] = [prev |-> 2, last |-> 3]
    /\ Len(out) = 3
    /\ Cardinality({ out[i].to : i \in 1..Len(out) }) = 3

(* C21 *)

\* C21: a joinRoom sends no userJoined envelope to the joining connection
\* itself, also when the joiner already has a record in that room: every
\* userJoined of a join goes to another connection, one that had a record in
\* the room before the join.
C21_NoUserJoinedToJoiner ==
    ev.type = "joinRoom" =>
        \A i \in SentOfType(out, "userJoined") :
            /\ out[i].to # ev.socket
            /\ RecordsOf(pre.rooms[ev.roomId].users, out[i].to) # {}

(* C22 *)

\* C22: no envelope of any type is sent to a connection whose close event
\* was handled before the event that sends it.
C22_NothingSentAfterClose ==
    \A i \in 1..Len(out) :
        conn[out[i].to] = "closed" => (ev.type = "close" /\ ev.socket = out[i].to)

(* C23 *)

\* C23: a parseable envelope of type joinRoom or chat without a payload
\* object is dropped: the process lives on, the connection stays open, and
\* rooms and allSockets are as they were.
C23_MissingPayloadDropped ==
    ev.type = "missingPayload" =>
        /\ alive
        /\ conn[ev.socket] = "open"
        /\ rooms = pre.rooms
        /\ allSockets = pre.allSockets

(* C24 *)

\* the number of occurrences of record r in a User[]
CountIn(users, r) == Cardinality({ i \in 1..Len(users) : users[i] = r })

\* the number of occurrences of record r in the member collections of rms
CountInRooms(rms, r) ==
    Cardinality({ ki \in (DOMAIN rms) \X (1..MaxUsers) :
                    ki[2] <= Len(rms[ki[1]].users) /\ rms[ki[1]].users[ki[2]] = r })

\* the records of a registry, wherever they are held
RecordsHeld(rms, users) ==
    { users[i] : i \in 1..Len(users) }
        \cup UNION { { rms[k].users[i] : i \in 1..Len(rms[k].users) } : k \in DOMAIN rms }

\* C24: registry consistency.  In every reachable state allSockets and the
\* member collections of the registered rooms hold the same records the same
\* number of times; every record is held by the room its room field names,
\* which is registered; and the id field of every room is its key.
C24_RegistryConsistent ==
    /\ \A k \in DOMAIN rooms :
          /\ rooms[k].id = k
          /\ \A i \in 1..Len(rooms[k].users) : rooms[k].users[i].room = k
    /\ \A i \in 1..Len(allSockets) :
          /\ allSockets[i].room \in DOMAIN rooms
          /\ CountIn(rooms[allSockets[i].room].users, allSockets[i]) >= 1
    /\ \A r \in RecordsHeld(rooms, allSockets) :
          CountIn(allSockets, r) = CountInRooms(rooms, r)

\* a connection bound twice has closed: one of its records was removed from
\* allSockets and from its room, the other is still held by both
C24_Witness ==
    /\ ev.type = "close"
    /\ Cardinality(RecordsOf(pre.allSockets, ev.socket)) = 2
    /\ Cardinality(RecordsOf(allSockets, ev.socket)) = 1
    /\ Len(allSockets) = 2

(* C25 *)

\* C25: user-count agreement.  For every open connection with a record in a
\* registered room, the userCount most recently delivered to it (1 when none
\* was delivered yet) is the number of records in that room's member
\* collection.
C25_UserCountAgrees ==
    \A k \in DOMAIN rooms :
        \A s \in Sockets :
            (conn[s] = "open" /\ RecordsOf(rooms[k].users, s) # {}) =>
                (IF delivered[s] = 0 THEN 1 ELSE delivered[s]) = Len(rooms[k].users)

(* C26 *)

\* the earliest record of socket s in a User[] that holds one
EarliestRecord(users, s) ==
    users[CHOOSE i \in RecordsOf(users, s) : \A j \in RecordsOf(users, s) : i <= j]

\* every room of the registry before the event, other than R, is registered
\* after it with the same member collection
OtherRoomsKept(R) ==
    \A k \in (DOMAIN pre.rooms) \ {R} :
        k \in DOMAIN rooms /\ rooms[k] = pre.rooms[k]

\* every envelope of the given type went to a connection with a record in
\* room R before the event
OnlyToMembersOf(R, type) ==
    \A i \in SentOfType(out, type) :
        RecordsOf(pre.rooms[R].users, out[i].to) # {}

\* C26: joinRoom and close are partitioned by room.  A successful joinRoom
\* into room R, and a close that removes a record from room R, leave every
\* other registered room and its member collection as they were, and send
\* userJoined / userLeft only to connections with a record in R.
C26_PartitionedByRoom ==
    /\ JoinedNow(ev, out) =>
          /\ OtherRoomsKept(ev.roomId)
          /\ OnlyToMembersOf(ev.roomId, "userJoined")
    /\ (ev.type = "close" /\ RecordsOf(pre.allSockets, ev.socket) # {}) =>
          LET R == EarliestRecord(pre.allSockets, ev.socket).room
          IN  /\ OtherRoomsKept(R)
              /\ OnlyToMembersOf(R, "userLeft")
    /\ (JoinedNow(ev, out) \/ ev.type = "close") =>
          (DOMAIN rooms) \subseteq (DOMAIN pre.rooms)

\* a connection leaves a room of two while an open connection is a member of
\* another room only
C26_Witness ==
    /\ ev.type = "close"
    /\ Len(out) = 1
    /\ out[1].type = "userLeft"
    /\ \E c \in Sockets, k \in DOMAIN rooms :
          /\ conn[c] = "open"
          /\ c # out[1].to
          /\ RoomRecordsOf(rooms, c) # {}
          /\ \A ki \in RoomRecordsOf(rooms, c) : ki[1] = k
          /\ RecordsOf(rooms[k].users, out[1].to) = {}

(* C27 *)

\* C27: the close of a connection that has no Connection-User record leaves
\* rooms and allSockets as they were and sends nothing to anyone.
C27_UnboundCloseNoOp ==
    (ev.type = "close" /\ RecordsOf(pre.allSockets, ev.socket) = {}) =>
        /\ out = <<>>
        /\ rooms = pre.rooms
        /\ allSockets = pre.allSockets

\* a connection that never created or joined closes while a room has two
\* members
C27_Witness ==
    /\ ev.type = "close"
    /\ RecordsOf(pre.allSockets, ev.socket) = {}
    /\ Len(allSockets) = 2
    /\ \E k \in DOMAIN rooms : Len(rooms[k].users) = 2

(* C28 *)

\* C28: handling a chat envelope (type chat, with its payload) never changes
\* the registry: the rooms map with every member collection, and allSockets,
\* are after it what they were before it, whether or not anything is relayed.
C28_ChatKeepsRegistry ==
    ev.type = "chat" =>
        /\ rooms = pre.rooms
        /\ allSockets = pre.allSockets

\* a chat is relayed in a room that still holds the record of a closed
\* connection
C28_Witness ==
    /\ ev.type = "chat"
    /\ \E i \in 1..Len(out) : conn[out[i].to] = "closed"
    /\ \E i \in 1..Len(out) : conn[out[i].to] = "open"

(* C29 *)

\* C29: when the close of a connection removes the only record of its room,
\* the room is removed and no userLeft (nothing at all) is sent; userLeft is
\* sent only when the room keeps at least one record, once per record kept.
C29_NoUserLeftWhenEmptied ==
    (ev.type = "close" /\ RecordsOf(pre.allSockets, ev.socket) # {}) =>
        LET R == EarliestRecord(pre.allSockets, ev.socket).room
        IN  /\ Len(pre.rooms[R].users) = 1 =>
                  /\ out = <<>>
                  /\ R \notin DOMAIN rooms
            /\ SentOfType(out, "userLeft") # {} =>
                  /\ R \in DOMAIN rooms
                  /\ Len(rooms[R].users) >= 1
                  /\ Len(out) = Len(rooms[R].users)

\* the only member of a room closes while another connection is open in
\* another room
C29_Witness ==
    /\ ev.type = "close"
    /\ RecordsOf(pre.allSockets, ev.socket) # {}
    /\ Len(pre.rooms[EarliestRecord(pre.allSockets, ev.socket).room].users) = 1
    /\ out = <<>>
    /\ \E c \in Sockets : conn[c] = "open" /\ RecordsOf(allSockets, c) # {}

(* C30 *)

\* C30: a chat from a connection that holds several Connection-User records
\* is relayed to the room of its earliest record, with the userId of that
\* record, once per record of that room and to nobody else: never to a room
\* it created or joined later.
C30_ChatFollowsEarliestBinding ==
    (ev.type = "chat" /\ RecordsOf(pre.allSockets, ev.socket) # {}) =>
        LET first == EarliestRecord(pre.allSockets, ev.socket)
        IN  out = forEachSend(pre.rooms[first.room].users, "message",
                              [message |-> ev.message, userId |-> first.userId])

\* the sender is bound to two rooms under two userIds, and another connection
\* is in the room of the later binding
C30_Witness ==
    /\ ev.type = "chat"
    /\ \E i, j \in RecordsOf(pre.allSockets, ev.socket) :
          /\ i < j
          /\ pre.allSockets[i].room # pre.allSockets[j].room
          /\ pre.allSockets[i].userId # pre.allSockets[j].userId
          /\ Len(pre.rooms[pre.allSockets[j].room].users) = 2
    /\ Len(out) = 1

(* C31 *)

\* C31: per-connection ordering.  Every message, userJoined or userLeft
\* envelope goes to a connection that was sent a roomCreated or roomJoined
\* earlier: by an earlier event, or earlier in the same event.  A connection
\* that holds no record after the event was sent nothing by it, except the
\* error reply to its own failing joinRoom.
C31_BoundBeforeRelay ==
    \A i \in 1..Len(out) :
        /\ out[i].type \in RelayTypes =>
              \/ out[i].to \in welcomed
              \/ \E j \in 1..(i - 1) :
                    out[j].to = out[i].to /\ out[j].type \in BindingTypes
        /\ RecordsOf(allSockets, out[i].to) = {} =>
              /\ out[i].type = "error"
              /\ ev.type = "joinRoom"
              /\ out[i].to = ev.socket

\* a connection joins for the first time a room of two: both members are
\* notified, then the joiner, told of no binding before, gets roomJoined
C31_Witness ==
    /\ JoinedNow(ev, out)
    /\ ev.socket \notin welcomed
    /\ Len(out) = 3
    /\ \A i \in 1..2 : out[i].type = "userJoined" /\ out[i].to \in welcomed

====
